---- MODULE Spec2Model ----
(***************************************************************************)
(* A model of the two programs of fast-p2a:                                *)
(*   profiling/parquet-cpp/prelim.cc   (synthetic column generator and     *)
(*                                      Parquet writer, standalone driver) *)
(*   examples/prim64/software/cpp/prim64.cpp  (accelerator driver)         *)
(*                                                                         *)
(* Machine words.  TLC's integers are 32-bit, so a W-bit C++ integer is    *)
(* kept as its bit pattern: a sequence of 16-bit limbs, least significant  *)
(* first (4 limbs for a 64-bit word, 2 for a 32-bit word).  Signed and     *)
(* unsigned readings of a pattern are separate operators, as in C++.       *)
(***************************************************************************)
EXTENDS Integers, Sequences, FiniteSets, TLC

\* ------------------------------------------------------------------------
\* Word arithmetic on limb sequences
\* ------------------------------------------------------------------------

LimbBits == 2 * 8
LimbBase == 2 ^ LimbBits
HalfLimb == 2 ^ (LimbBits - 1)

\* Bit widths of the two generators' integer types; the exponent of a
\* modulus is drawn as  gen() % 64  and  rand() % 32.
Width64 == 64
Width32 == 32

Limbs64 == Width64 \div LimbBits
Limbs32 == Width32 \div LimbBits

ZeroWord(nl) == [k \in 1..nl |-> 0]

IsZeroWord(w) == \A k \in 1..Len(w) : w[k] = 0

\* The sign bit of the two's-complement reading.
IsNegative(w) == w[Len(w)] >= HalfLimb

\* Unsigned comparison a < b of two words of equal length.
RECURSIVE ULessFrom(_, _, _)
ULessFrom(a, b, k) ==
    IF k = 0 THEN FALSE
    ELSE IF a[k] # b[k] THEN a[k] < b[k]
    ELSE ULessFrom(a, b, k - 1)

ULess(a, b) == ULessFrom(a, b, Len(a))

\* Two's-complement negation: ~w + 1, modulo 2^W.
RECURSIVE NegFrom(_, _, _)
NegFrom(w, k, carry) ==
    IF k > Len(w) THEN << >>
    ELSE LET s == (LimbBase - 1 - w[k]) + carry
         IN  << s % LimbBase >> \o NegFrom(w, k + 1, s \div LimbBase)

Negate(w) == NegFrom(w, 1, 1)

\* Magnitude |w| of the signed reading, as an unsigned pattern
\* (|INT_MIN| = 2^(W-1) keeps the pattern of INT_MIN).
Magnitude(w) == IF IsNegative(w) THEN Negate(w) ELSE w

\* 1 << e in a word of nl limbs (0 <= e < 16 * nl).
ShiftLeftOne(e, nl) ==
    [k \in 1..nl |-> IF k - 1 = e \div LimbBits THEN 2 ^ (e % LimbBits) ELSE 0]

\* Index of the highest nonzero limb (0 for the zero word).
RECURSIVE TopLimb(_, _)
TopLimb(w, k) == IF k = 0 THEN 0 ELSE IF w[k] # 0 THEN k ELSE TopLimb(w, k - 1)

\* The word has exactly one bit set.
IsPowerOfTwo(w) ==
    LET j == TopLimb(w, Len(w))
    IN  /\ j > 0
        /\ \A k \in 1..Len(w) : k # j => w[k] = 0
        /\ \E s \in 0..(LimbBits - 1) : w[j] = 2 ^ s

\* The exponent of a one-bit word.
Log2Word(w) ==
    LET j == TopLimb(w, Len(w))
    IN  (j - 1) * LimbBits + (CHOOSE s \in 0..(LimbBits - 1) : w[j] = 2 ^ s)

\* Unsigned remainder a % b for a one-bit divisor b (every divisor the
\* generators build is 1 << e): limbs below b's limb are kept, b's limb is
\* reduced, limbs above are cleared.
URem(a, b) ==
    LET j == TopLimb(b, Len(b))
    IN  [k \in 1..Len(a) |->
            IF k < j THEN a[k]
            ELSE IF k = j THEN a[k] % b[j]
            ELSE 0]

\* C++ signed remainder a % b (truncating division: the result has the
\* dividend's sign and magnitude |a| mod |b|), for |b| a power of two.
SRem(a, b) ==
    LET r == URem(Magnitude(a), Magnitude(b))
    IN  IF IsNegative(a) THEN Negate(r) ELSE r

\* Unsigned division of a word by a small divisor d (d * LimbBase within
\* TLC's integers): <<quotient word, remainder>>.
RECURSIVE DivSmallFrom(_, _, _, _)
DivSmallFrom(w, d, k, carry) ==
    IF k = 0 THEN << << >>, carry >>
    ELSE LET cur  == carry * LimbBase + w[k]
             rest == DivSmallFrom(w, d, k - 1, cur % d)
         IN  << rest[1] \o << cur \div d >>, rest[2] >>

DivSmall(w, d) == DivSmallFrom(w, d, Len(w), 0)

\* w * m + a modulo 2^W for small m and a.
RECURSIVE MulAddFrom(_, _, _, _)
MulAddFrom(w, m, k, carry) ==
    IF k > Len(w) THEN << >>
    ELSE LET s == w[k] * m + carry
         IN  << s % LimbBase >> \o MulAddFrom(w, m, k + 1, s \div LimbBase)

MulAdd(w, m, a) == MulAddFrom(w, m, 1, a)

\* The low bits of an unsigned word: w % d for d dividing LimbBase.
LowMod(w, d) == w[1] % d

\* The bytes of a word in memory order (little-endian host).
RECURSIVE WordBytesFrom(_, _)
WordBytesFrom(w, k) ==
    IF k > Len(w) THEN << >>
    ELSE << w[k] % 256, w[k] \div 256 >> \o WordBytesFrom(w, k + 1)

WordBytes(w) == WordBytesFrom(w, 1)

\* ------------------------------------------------------------------------
\* Text conversions of the output streams
\* ------------------------------------------------------------------------

DigitChars == << "0", "1", "2", "3", "4", "5", "6", "7", "8", "9",
                 "a", "b", "c", "d", "e", "f" >>

DigitValue(c) == (CHOOSE d \in 1..16 : DigitChars[d] = c) - 1

\* Digits of an unsigned word in the given base, most significant first,
\* without leading zeros (a single "0" for zero).
RECURSIVE UDigits(_, _)
UDigits(w, base) ==
    LET qr == DivSmall(w, base)
    IN  IF IsZeroWord(qr[1]) THEN << DigitChars[qr[2] + 1] >>
        ELSE UDigits(qr[1], base) \o << DigitChars[qr[2] + 1] >>

PadLeft(s, width, fill) ==
    IF Len(s) >= width THEN s
    ELSE [k \in 1..(width - Len(s)) |-> fill] \o s

\* operator<< of a signed integer in decimal: sign, then magnitude.
FormatDec(w) ==
    IF IsNegative(w) THEN << "-" >> \o UDigits(Negate(w), 10)
    ELSE UDigits(w, 10)

\* Field width of the hexadecimal lines: std::setw(8).
HexWidth == 8

\* operator<< under std::hex, std::setfill('0'), std::setw(8): the bit
\* pattern's digits (hex output of a signed value prints its unsigned
\* pattern), padded on the left to AT LEAST the field width.
FormatHex(w) == PadLeft(UDigits(w, 16), HexWidth, "0")

\* Reading a decimal line back into a word of nl limbs (optional sign,
\* digits most significant first).
RECURSIVE ParseDigits(_, _, _)
ParseDigits(s, k, acc) ==
    IF k > Len(s) THEN acc
    ELSE ParseDigits(s, k + 1, MulAdd(acc, 10, DigitValue(s[k])))

ParseDec(s, nl) ==
    IF Len(s) > 0 /\ s[1] = "-"
    THEN Negate(ParseDigits(s, 2, ZeroWord(nl)))
    ELSE ParseDigits(s, 1, ZeroWord(nl))

\* ------------------------------------------------------------------------
\* Bounds of the model and the sample values of the random sources
\* ------------------------------------------------------------------------

\* Largest num_values, largest run_length, and the largest num_values for
\* which a second generation (to compare two runs) is explored.
MaxN == 3
MaxRunLength == 3
MaxRerunN == 1

\* Values std::mt19937_64's operator() returns (64-bit unsigned):
\*   0xFFFFFFFFFFFFFFFF  (gen() % 64 = 63, every bit set)
\*   0x0123456789ABCDE8  (gen() % 64 = 40)
\*   0x80000000000000C0  (gen() % 64 = 0, top bit set)
Pool64 == { << 65535, 65535, 65535, 65535 >>,
            << 52712, 35243, 17767, 291 >>,
            << 192, 0, 0, 32768 >> }

\* Values rand() returns (int in [0, RAND_MAX], RAND_MAX = 2^31 - 1):
\*   0x7FFFFFFF (rand() % 32 = 31),  0x12345678 (rand() % 32 = 24),
\*   0x000100C0 (rand() % 32 = 0)
PoolRand == { << 65535, 32767 >>, << 22136, 4660 >>, << 192, 1 >> }

\* Values std::random_device returns, as opaque tokens.
Seeds == {1, 2}

\* Largest rand() position that calls of the other rand() users of prelim.cc
\* are allowed to reach, and their largest string length.
MaxRandSkip == 3
MaxStringLength == 2

\* ------------------------------------------------------------------------
\* State
\* ------------------------------------------------------------------------

VARIABLES
    prog,          \* the program of this process: "prelim", "prim64", or
                   \* "caller" (a program calling prelim.cc's functions)
    pc,            \* control position
    argc,          \* main's argc
    status,        \* exit status: "running", "0", "1", "-1", "terminate"
    out,           \* tags of the messages written to stdout / stderr
    kind,          \* generator executing: "int64" or "int32"
    num_values,    \* generator argument (prelim main: atoi(argv[1]))
    run_length,    \* generator argument
    write_to_file, \* generator argument
    i,             \* loop counter of the generator
    modulo,        \* the generator's local `modulo` (bit pattern)
    number,        \* the generator's local `number` (bit pattern)
    column,        \* values appended to the Arrow builder so far
    table,         \* the table returned by the generator
    files,         \* file system: name -> [exists, data, failed]
    seed,          \* value std::random_device gave to gen's constructor
    genCount,      \* number of values taken from gen
    mtTape,        \* the output sequence of mt19937_64 for each seed, as far
                   \* as it has been observed
    randCount,     \* number of rand() calls made by this process
    randTape,      \* the output sequence of rand() (never seeded: srand(1))
    prng0,         \* state of the random source when the generator started
    drawLog,       \* positions i at which a modulus was drawn
    modLog,        \* the value of `modulo` when each position's value was made
    prev,          \* summary of the previous completed generation
    written,       \* the last parquet::arrow::WriteTable call
    platName,      \* prim64: platform->name() of the detected platform
    num_val,       \* prim64: number of values to read (argv[3])
    file_size,     \* prim64: size of the hardware input file
    bufSize,       \* prim64: bytes allocated for file_data
    bufReads,      \* prim64: number of leading bytes of file_data read
    devAddr,       \* prim64: device_parquet_address: [set, addr]
    cmds,          \* prim64: calls made on platform, context and kernel
    result,        \* prim64: the values of result_array
    reference,     \* prim64: the values of correct_array
    error_count    \* prim64: error_count of the check (-1: not computed)

genVars  == << kind, num_values, run_length, write_to_file, i, modulo, number,
               column, table >>
prngVars == << seed, genCount, mtTape, randCount, randTape, prng0 >>
logVars  == << drawLog, modLog >>
procVars == << prog, argc, status, out >>
accVars  == << platName, num_val, file_size, bufSize, bufReads, devAddr,
               cmds, result, reference, error_count >>
prelimVars == << genVars, prngVars, logVars, files, prev, written >>
vars == << prog, pc, argc, status, out, kind, num_values, run_length,
           write_to_file, i, modulo, number, column, table, files, seed,
           genCount, mtTape, randCount, randTape, prng0, drawLog, modLog,
           prev, written, platName, num_val, file_size, bufSize, bufReads,
           devAddr, cmds, result, reference, error_count >>

NumLimbs(k) == IF k = "int64" THEN Limbs64 ELSE Limbs32
WidthOf(k)  == IF k = "int64" THEN Width64 ELSE Width32

\* Sidecar file names of each generator.
BinFile(k) == IF k = "int64" THEN "delta_varied_int64array.bin"
                             ELSE "delta_varied_int32array.bin"
DecFile(k) == IF k = "int64" THEN "delta_varied_int64array.dec"
                             ELSE "delta_varied_int32array.dec"
HexFile(k) == IF k = "int64" THEN "delta_varied_int64array.hex"
                             ELSE "delta_varied_int32array.hex"
Sidecars(k) == { BinFile(k), DecFile(k), HexFile(k) }

ParquetPath == "../../gen-input/ref_delta_varied_int64.parquet"

FileNames == Sidecars("int64") \cup Sidecars("int32") \cup { ParquetPath }

\* A file and the state of the std::ofstream the generator has on it.  data:
\* the complete lines of a text file / the bytes of a binary file; tail: the
\* characters after the last newline of a text file; failed: the stream's
\* failbit / badbit is set, so its insertions do nothing; pending: the line
\* a failed write left in the stream's filebuf.
Absent == [exists |-> FALSE, data |-> << >>, tail |-> << >>, failed |-> FALSE,
           pending |-> << >>]
Empty  == [exists |-> TRUE,  data |-> << >>, tail |-> << >>, failed |-> FALSE,
           pending |-> << >>]

NoTable == [made |-> FALSE, type |-> "none", nullable |-> FALSE, column |-> << >>]
NoRun   == [valid |-> FALSE, kind |-> "none", num_values |-> 0, run_length |-> 0,
            prng |-> << 0, 0 >>, column |-> << >>]
NoWrite == [called |-> FALSE, filename |-> "", chunk_size |-> 0,
            argCompression |-> FALSE, argDictionary |-> FALSE,
            statistics |-> TRUE, compression |-> "UNCOMPRESSED",
            dictionary |-> TRUE, column |-> << >>]

\* ------------------------------------------------------------------------
\* Random sources
\* ------------------------------------------------------------------------

\* A random engine is a deterministic function of its seed and of the number
\* of values taken so far.  The function itself is left open: a value is
\* chosen from the pool the first time a position of a sequence is read and
\* is then fixed (the tape), so a second engine with the same seed replays it.
\* Variant: every value is drawn afresh (as if gen were a std::random_device).
TapeNextFresh(tape, cnt, pool) == pool

TapeNext(tape, cnt, pool) == IF cnt < Len(tape) THEN { tape[cnt + 1] } ELSE pool

TapePut(tape, cnt, v) == IF cnt < Len(tape) THEN tape ELSE Append(tape, v)

\* ------------------------------------------------------------------------
\* prelim.cc: the variable-bit-width generators
\* ------------------------------------------------------------------------

\* Variant: the loop runs once more (i <= num_values).
LoopContinuesInclusive(pos, n) == pos <= n

\* for (int i = 0; i < num_values; i++): the loop's condition.
LoopContinues(pos, n) == pos < n

\* Variant: the run boundary is tested after the increment.
NewRunShifted(pos, len) == ((pos + 1) % len) = 0

\* if ((i % run_length) == 0)
NewRun(pos, len) == (pos % len) = 0

\* modulo = 1ULL << (gen() % 64);   the unsigned result is converted to the
\* int64_t variable: the bit pattern is kept.
DrawModulo64(g) == ShiftLeftOne(LowMod(g, Width64), Limbs64)

\* Variant: the remainder is taken on signed operands.
DrawNumber64Signed(g, m) == SRem(g, m)

\* number = gen() % modulo;   gen() is unsigned 64-bit, so modulo is
\* converted to unsigned and the remainder is unsigned; the result is
\* converted to int64_t (pattern kept).
DrawNumber64(g, m) == URem(g, m)

\* modulo = 1U << (rand() % 32);   converted to int: the pattern is kept.
DrawModulo32(r) == ShiftLeftOne(LowMod(r, Width32), Limbs32)

\* number = rand() % modulo;   both operands are int: signed remainder.
DrawNumber32(r, m) == SRem(r, m)

DrawModulo(k, g) == IF k = "int64" THEN DrawModulo64(g) ELSE DrawModulo32(g)
DrawNumber(k, g, m) == IF k = "int64" THEN DrawNumber64(g, m) ELSE DrawNumber32(g, m)

\* The random source a generator reads: gen (a local engine) or rand().
CurTape  == IF kind = "int64" THEN mtTape[seed] ELSE randTape
CurCount == IF kind = "int64" THEN genCount ELSE randCount
CurPool  == IF kind = "int64" THEN Pool64 ELSE PoolRand

\* The raw bytes of the values buffer, buffers[1] of the finished array.
RECURSIVE BufferBytes(_)
BufferBytes(col) ==
    IF col = << >> THEN << >>
    ELSE WordBytes(Head(col)) \o BufferBytes(Tail(col))

\* check_file.open, dec_check_file.open, hex_check_file.open: each file is
\* created, or truncated when it exists.
\* operator<< on an ofstream: the items reach the file unless the stream is
\* in a failed state (the code never tests or clears the state).
Insert(file, items) ==
    IF file.failed THEN file ELSE [file EXCEPT !.data = @ \o items]

\* The streams in bad fail to open: open() sets failbit and the file stays
\* as it was before the call.
FailedOpens(after, before, bad) ==
    [f \in FileNames |->
        IF f \in bad THEN [before[f] EXCEPT !.failed = TRUE] ELSE after[f]]

\* An insertion that fails (disk full, file size limit): write() takes the
\* first c characters of the line, or c bytes, and badbit is set.  The line
\* stays in the filebuf.
PartialLine(file, line, c) ==
    [file EXCEPT !.tail = SubSeq(line, 1, c), !.failed = TRUE,
                 !.pending = line]

\* close() of a text stream, explicit or by its destructor: the filebuf
\* writes the line it still holds, if any, once more: nothing of it, a part
\* of it, or the whole line reaches the file, after what is already there.
CloseOutcomes(file) ==
    IF file.pending = << >> THEN { file }
    ELSE { [file EXCEPT !.pending = << >>] }
         \cup { [file EXCEPT !.tail = @ \o SubSeq(file.pending, 1, c),
                            !.pending = << >>] : c \in 1..Len(file.pending) }
         \cup { [file EXCEPT !.data = Append(@, file.tail \o file.pending),
                            !.tail = << >>, !.pending = << >>] }

PartialBytes(file, bytes, c) ==
    [file EXCEPT !.data = @ \o SubSeq(bytes, 1, c), !.failed = TRUE]

\* What `stream << number << std::endl` can leave: the whole line, or, the
\* write failing, any part of it short of its newline.
LineOutcomes(file, line) ==
    IF file.failed THEN { file }
    ELSE { Insert(file, << line >>) }
         \cup { PartialLine(file, line, c) : c \in 0..Len(line) }

\* What the byte loop on check_file and its close() can leave.
BytesOutcomes(file, bytes) ==
    IF file.failed THEN { file }
    ELSE { Insert(file, bytes) }
         \cup { PartialBytes(file, bytes, c) : c \in 0..(Len(bytes) - 1) }

OpenSidecars(fs, k) ==
    [f \in FileNames |-> IF f \in Sidecars(k) THEN Empty ELSE fs[f]]

\* if (write_to_file) { check_file.open(...); dec_check_file.open(...);
\* hex_check_file.open(...); }
OpenIfRecording(fs, k, w) == IF w THEN OpenSidecars(fs, k) ELSE fs

\* dec_check_file << number << std::endl;
\* hex_check_file << std::hex << std::setfill('0') << std::setw(8) << number ...
RecordValue(fs, k, n) ==
    [fs EXCEPT ![DecFile(k)] = Insert(@, << FormatDec(n) >>),
               ![HexFile(k)] = Insert(@, << FormatHex(n) >>)]

\* if (write_to_file) { dec_check_file << ...; hex_check_file << ...; }
RecordIfRecording(fs, k, n, w) == IF w THEN RecordValue(fs, k, n) ELSE fs

\* check_file << buffers[1]->data()[i]  for every byte of the buffer.
WriteBin(fs, k, col) ==
    [fs EXCEPT ![BinFile(k)] = Insert(@, BufferBytes(col))]

\* if (write_to_file) { for (...) check_file << ...; the three close() }
WriteBinIfRecording(fs, k, col, w) == IF w THEN WriteBin(fs, k, col) ELSE fs

\* The sidecar lines of one iteration when insertions may fail.
RecordOutcomes(fs, k, n, w) ==
    IF ~w THEN { fs }
    ELSE { [fs EXCEPT ![DecFile(k)] = d, ![HexFile(k)] = h] :
              d \in LineOutcomes(fs[DecFile(k)], FormatDec(n)),
              h \in LineOutcomes(fs[HexFile(k)], FormatHex(n)) }

\* dec_check_file and hex_check_file are closed (lines 189-190, or their
\* destructors when an exception leaves the function).
CloseText(fs, k, w) ==
    IF ~w THEN { fs }
    ELSE { [fs EXCEPT ![DecFile(k)] = d, ![HexFile(k)] = h] :
              d \in CloseOutcomes(fs[DecFile(k)]),
              h \in CloseOutcomes(fs[HexFile(k)]) }

\* The binary sidecar when insertions may fail.
WriteBinOutcomes(fs, k, col, w) ==
    IF ~w THEN { fs }
    ELSE { [fs EXCEPT ![BinFile(k)] = b] :
              b \in BytesOutcomes(fs[BinFile(k)], BufferBytes(col)) }

\* The generator's prologue, up to the loop: locals, gen's construction from
\* std::random_device (int64 only), and the opening of the sidecar files.
GenEnterIO(k, n, len, w, rc, bad) ==
    /\ kind' = k
    /\ num_values' = n
    /\ run_length' = len
    /\ write_to_file' = w
    /\ i' = 0
    /\ modulo' = ZeroWord(NumLimbs(k))
    /\ number' = ZeroWord(NumLimbs(k))
    /\ column' = << >>
    /\ table' = NoTable
    /\ IF k = "int64"
       THEN /\ seed' \in Seeds
            /\ genCount' = 0
            /\ prng0' = << seed', 0 >>
       ELSE /\ UNCHANGED << seed, genCount >>
            /\ prng0' = << 0, rc >>
    /\ randCount' = rc
    /\ UNCHANGED << mtTape, randTape >>
    /\ files' = FailedOpens(OpenIfRecording(files, k, w), files, bad)
    /\ drawLog' = << >>
    /\ modLog' = << >>
    /\ pc' = "gen_loop"

\* The prologue when every open() succeeds.
GenEnter(k, n, len, w, rc) == GenEnterIO(k, n, len, w, rc, { })

\* Variant: the failed status is dropped and execution goes on.
ThrowIgnored ==
    /\ pc' = pc
    /\ status' = status

\* Where an exception thrown by PARQUET_THROW_NOT_OK ends up: prelim's main
\* catches nothing (std::terminate); a caller sees the exception.
Throw ==
    IF prog = "prelim"
    THEN /\ pc' = "exited"
         /\ status' = "terminate"
    ELSE /\ pc' = "threw"
         /\ status' = status

\* One iteration of the generator's loop; faulty: insertions on the sidecar
\* streams may fail.
LoopBodyIO(faulty) ==
    /\ pc = "gen_loop"
    /\ LoopContinues(i, num_values)
    /\ LET newrun == NewRun(i, run_length)
       IN \E g1 \in (IF newrun THEN TapeNext(CurTape, CurCount, CurPool)
                               ELSE { ZeroWord(NumLimbs(kind)) }) :
          LET tape1 == IF newrun THEN TapePut(CurTape, CurCount, g1) ELSE CurTape
              cnt1  == IF newrun THEN CurCount + 1 ELSE CurCount
              m     == IF newrun THEN DrawModulo(kind, g1) ELSE modulo
          IN \E g2 \in TapeNext(tape1, cnt1, CurPool) :
             LET tape2 == TapePut(tape1, cnt1, g2)
                 n     == DrawNumber(kind, g2, m)
             IN /\ modulo' = m
                /\ number' = n
                /\ IF kind = "int64"
                   THEN /\ mtTape' = [mtTape EXCEPT ![seed] = tape2]
                        /\ genCount' = cnt1 + 1
                        /\ UNCHANGED << randTape, randCount >>
                   ELSE /\ randTape' = tape2
                        /\ randCount' = cnt1 + 1
                        /\ UNCHANGED << mtTape, genCount >>
                /\ drawLog' = IF newrun THEN Append(drawLog, i) ELSE drawLog
                /\ \E appendOk \in BOOLEAN :
                      IF appendOk
                      THEN /\ column' = Append(column, n)
                           /\ modLog' = Append(modLog, m)
                           /\ files' \in
                                 IF faulty
                                 THEN RecordOutcomes(files, kind, n,
                                                     write_to_file)
                                 ELSE { RecordIfRecording(files, kind, n,
                                                          write_to_file) }
                           /\ i' = i + 1
                           /\ UNCHANGED << pc, status >>
                      ELSE /\ Throw
                           /\ files' \in CloseText(files, kind, write_to_file)
                           /\ UNCHANGED << column, modLog, i >>
    /\ UNCHANGED << prog, argc, out, kind, num_values, run_length,
                    write_to_file, table, seed, prng0, prev, written, accVars >>

\* One iteration when every insertion succeeds.
LoopBody == LoopBodyIO(FALSE)

GenLoop64 == kind = "int64" /\ LoopBody

GenLoop32 == kind = "int32" /\ LoopBody

\* After the loop: Finish, the schema, the binary sidecar, the closes and
\* the return of the table.
FinishBodyIO(faulty) ==
    /\ pc = "gen_loop"
    /\ ~LoopContinues(i, num_values)
    /\ \E finishOk \in BOOLEAN :
          IF finishOk
          THEN /\ files' \in
                     UNION { CloseText(fs, kind, write_to_file) :
                        fs \in IF faulty
                               THEN WriteBinOutcomes(files, kind, column,
                                                     write_to_file)
                               ELSE { WriteBinIfRecording(files, kind, column,
                                                          write_to_file) } }
               /\ table' = [made |-> TRUE, type |-> kind, nullable |-> FALSE,
                            column |-> column]
               /\ pc' = IF prog = "prelim" THEN "main_write" ELSE "returned"
               /\ UNCHANGED status
          ELSE /\ Throw
               /\ files' \in CloseText(files, kind, write_to_file)
               /\ UNCHANGED table
    /\ UNCHANGED << prog, argc, out, kind, num_values, run_length,
                    write_to_file, i, modulo, number, column, prngVars,
                    logVars, prev, written, accVars >>

\* The end of the generator when the binary file's insertions succeed.
FinishBody == FinishBodyIO(FALSE)

GenFinish64 == kind = "int64" /\ FinishBody

GenFinish32 == kind = "int32" /\ FinishBody

\* ------------------------------------------------------------------------
\* prelim.cc: write_parquet_file
\* ------------------------------------------------------------------------

\* parquet::WriterProperties::Builder as constructed (the library's
\* defaults), before the calls write_parquet_file makes on it.
DefaultProps == [statistics |-> TRUE, compression |-> "UNCOMPRESSED",
                 dictionary |-> TRUE]

\* Variant: the two flags are applied to each other's option.
WriterPropsSwapped(compression, dictionary) ==
    [statistics |-> FALSE,
     compression |-> IF dictionary THEN "SNAPPY" ELSE "UNCOMPRESSED",
     dictionary |-> compression]

\* builder->disable_statistics(); builder->compression(...);
\* builder->enable_dictionary() / disable_dictionary(); builder->build()
WriterProps(compression, dictionary) ==
    LET b1 == [DefaultProps EXCEPT !.statistics = FALSE]
        b2 == IF compression
              THEN [b1 EXCEPT !.compression = "SNAPPY"]
              ELSE [b1 EXCEPT !.compression = "UNCOMPRESSED"]
        b3 == IF dictionary
              THEN [b2 EXCEPT !.dictionary = TRUE]
              ELSE [b2 EXCEPT !.dictionary = FALSE]
    IN  b3

\* The WriteTable call write_parquet_file makes (with the two flags it was
\* given, for reference).
WriteCall(t, filename, chunk_size, compression, dictionary) ==
    LET props == WriterProps(compression, dictionary)
    IN  [called |-> TRUE, filename |-> filename, chunk_size |-> chunk_size,
         argCompression |-> compression, argDictionary |-> dictionary,
         statistics |-> props.statistics, compression |-> props.compression,
         dictionary |-> props.dictionary, column |-> t.column]

\* write_parquet_file: FileOutputStream::Open (throws on failure), the
\* properties, WriteTable (throws on failure).  okPc and okStatus are where
\* the caller continues when nothing is thrown.
write_parquet_file(t, filename, chunk_size, compression, dictionary, okPc, okStatus) ==
    \E openOk \in BOOLEAN, writeOk \in BOOLEAN :
       IF ~openOk
       THEN /\ Throw
            /\ UNCHANGED << files, written >>
       ELSE /\ files' = [files EXCEPT ![filename] = Empty]
            /\ written' = WriteCall(t, filename, chunk_size, compression, dictionary)
            /\ IF writeOk
               THEN /\ pc' = okPc
                    /\ status' = okStatus
               ELSE Throw

\* ------------------------------------------------------------------------
\* prelim.cc: main
\* ------------------------------------------------------------------------

\* The run length main passes to the generator.
MainRunLength == 256

\* Largest argc explored.
MaxArgc == 4

\* Values atoi(argv[1]) yields.
AtoiValues == (-1)..MaxN

\* if (argc < 2)
PrelimArgsMissing(n) == n < 2

\* main up to the generator's loop: the argument check, the parsing of the
\* arguments, and the call generate_int64_delta_varied_bit_width_table(
\* num_values, 256, false).
PrelimMain ==
    /\ prog = "prelim"
    /\ pc = "start"
    /\ IF PrelimArgsMissing(argc)
       THEN /\ out' = Append(out, "usage")
            /\ status' = "1"
            /\ pc' = "exited"
            /\ UNCHANGED << genVars, prngVars, logVars, files >>
       ELSE /\ out' = Append(out, "size")
            /\ \E nv \in AtoiValues :
                  GenEnter("int64", nv, MainRunLength, FALSE, randCount)
            /\ UNCHANGED status
    /\ UNCHANGED << prog, argc, prev, written, accVars >>

\* main after the generator returned: the two messages and
\* write_parquet_file(*int64_table, path, num_values, false, false); then main
\* returns 0.
PrelimWrite ==
    /\ prog = "prelim"
    /\ pc = "main_write"
    /\ out' = out \o << "finished", "starting" >>
    /\ write_parquet_file(table, ParquetPath, num_values, FALSE, FALSE,
                          "exited", "0")
    /\ UNCHANGED << prog, argc, genVars, prngVars, logVars, prev, accVars >>

\* ------------------------------------------------------------------------
\* A program calling prelim.cc's functions directly
\* ------------------------------------------------------------------------

CallArgs(k) ==
    \E n \in 0..MaxN, len \in 1..MaxRunLength, w \in BOOLEAN :
       GenEnter(k, n, len, w, randCount)

\* generate_int64_delta_varied_bit_width_table(n, len, w)
Call64 ==
    /\ prog = "caller"
    /\ pc = "start"
    /\ CallArgs("int64")
    /\ UNCHANGED << procVars, prev, written, accVars >>

\* generate_int32_delta_varied_bit_width_table(n, len, w)
Call32 ==
    /\ prog = "caller"
    /\ pc = "start"
    /\ CallArgs("int32")
    /\ UNCHANGED << procVars, prev, written, accVars >>

\* The summary of the generation that just returned.
ThisRun == [valid |-> TRUE, kind |-> kind, num_values |-> num_values,
            run_length |-> run_length, prng |-> prng0, column |-> table.column]

\* The same generator is called a second time with the same arguments,
\* either by the same process or by a new process of the same program (in
\* which rand() starts over: no srand call exists in the program).
Repeat ==
    /\ prog = "caller"
    /\ pc = "returned"
    /\ ~prev.valid
    /\ num_values <= MaxRerunN
    /\ prev' = ThisRun
    /\ \E newProcess \in BOOLEAN :
          GenEnter(kind, num_values, run_length, write_to_file,
                   IF newProcess THEN 0 ELSE randCount)
    /\ UNCHANGED << procVars, written, accVars >>

\* Tables handed to write_parquet_file by a caller: one non-nullable column
\* of either integer type.
SampleTables ==
    { [made |-> TRUE, type |-> "int64", nullable |-> FALSE, column |-> c] :
          c \in { << >> } \cup { << w >> : w \in Pool64 } }
    \cup
    { [made |-> TRUE, type |-> "int32", nullable |-> FALSE, column |-> c] :
          c \in { << >> } \cup { << w >> : w \in PoolRand } }

\* write_parquet_file(table, path, chunk_size, compression, dictionary)
CallWrite ==
    /\ prog = "caller"
    /\ pc = "start"
    /\ \E t \in SampleTables, chunk \in 0..MaxN, c \in BOOLEAN, d \in BOOLEAN :
          write_parquet_file(t, ParquetPath, chunk, c, d, "wrote", status)
    /\ UNCHANGED << prog, argc, out, genVars, prngVars, logVars, prev, accVars >>

\* ------------------------------------------------------------------------
\* prelim.cc: the other functions that draw from rand()
\* ------------------------------------------------------------------------

\* The pairs << tape, position >> the rand() sequence can be in after d more
\* calls of rand().
RECURSIVE RandAfter(_, _, _)
RandAfter(tape, cnt, d) ==
    IF d <= 0 THEN { << tape, cnt >> }
    ELSE UNION { RandAfter(TapePut(tape, cnt, v), cnt + 1, d - 1) :
                    v \in TapeNext(tape, cnt, PoolRand) }

\* int length = rand() % (max_length - min_length + 1) + min_length;
StringLength(r, min_length, max_length) ==
    DivSmall(r, max_length - min_length + 1)[2] + min_length

\* The string loop of generate_str_table and generate_int64_str_table: for
\* each of n values one rand() for the length, then gen_random_string's
\* rand() per character.
RECURSIVE RandAfterStrings(_, _, _, _, _)
RandAfterStrings(tape, cnt, n, min_length, max_length) ==
    IF n <= 0 THEN { << tape, cnt >> }
    ELSE UNION { UNION { RandAfterStrings(tc[1], tc[2], n - 1,
                                          min_length, max_length) :
                            tc \in RandAfter(TapePut(tape, cnt, v), cnt + 1,
                                             StringLength(v, min_length,
                                                          max_length)) } :
                    v \in TapeNext(tape, cnt, PoolRand) }

\* A caller is between two calls of the int32 generator, the generator that
\* reads rand() (explored, like Repeat, after a first generation of at most
\* MaxRerunN values).
BetweenCalls ==
    /\ prog = "caller"
    /\ pc = "returned"
    /\ kind = "int32"
    /\ ~prev.valid
    /\ num_values <= MaxRerunN

\* The effect of one of these functions on the state followed here: the
\* process-wide rand() sequence moves on (their strings, tables and check
\* files of their own are not followed).
RandMoves(outcomes) ==
    /\ \E tc \in outcomes :
          /\ randTape' = tc[1]
          /\ randCount' = tc[2]
    /\ UNCHANGED << pc, procVars, genVars, seed, genCount, mtTape, prng0,
                    logVars, files, prev, written, accVars >>

\* gen_random_string(length): one rand() per character.
CallRandomString ==
    \E length \in 1..MaxStringLength :
       /\ BetweenCalls
       /\ randCount + length <= MaxRandSkip
       /\ RandMoves(RandAfter(randTape, randCount, length))

\* generate_int32_table(n, modulo, write_to_file): one rand() per value. It
\* returns after n calls of rand(), or throws out of the loop when Append
\* fails in iteration `drawn` (after that iteration's rand()), or throws at
\* Finish after all n.
CallInt32Table ==
    \E n \in 1..MaxN, drawn \in 1..MaxN :
       /\ BetweenCalls
       /\ drawn <= n
       /\ randCount + drawn <= MaxRandSkip
       /\ RandMoves(RandAfter(randTape, randCount, drawn))

\* generate_str_table(n, min_length, max_length, write_to_file): it returns
\* after drawing n strings, or throws when Append fails on string number
\* `strs` (drawn just before), or throws at Finish after all n.
CallStrTable ==
    \E n \in 1..MaxN, strs \in 1..MaxN, min_length \in 0..MaxStringLength,
       max_length \in 0..MaxStringLength :
       /\ BetweenCalls
       /\ strs <= n
       /\ min_length <= max_length
       /\ randCount + strs * (1 + max_length) <= MaxRandSkip
       /\ RandMoves(RandAfterStrings(randTape, randCount, strs,
                                     min_length, max_length))

\* generate_int64_str_table(n, min_length, max_length, modulo): one rand()
\* per integer, then the string loop. The call has drawn `ints` integers and
\* `strs` strings when it ends:
\*   - ints < n, strs = 0: the integer Append (line 314) failed in iteration
\*     `ints` and threw;
\*   - ints = n, strs = 0: the integer Finish (line 318) threw;
\*   - ints = n, 0 < strs < n: the string Append (line 325) failed and threw;
\*   - ints = n, strs = n: the last string Append or the string Finish (line
\*     328) threw, or the table was returned.
CallInt64StrTable ==
    \E n \in 1..MaxN, ints \in 1..MaxN, strs \in 0..MaxN,
       min_length \in 0..MaxStringLength, max_length \in 0..MaxStringLength :
       /\ BetweenCalls
       /\ ints <= n
       /\ strs <= n
       /\ strs > 0 => ints = n
       /\ min_length <= max_length
       /\ randCount + ints + strs * (1 + max_length) <= MaxRandSkip
       /\ RandMoves(UNION { RandAfterStrings(tc[1], tc[2], strs,
                                             min_length, max_length) :
                               tc \in RandAfter(randTape, randCount, ints) })

\* ------------------------------------------------------------------------
\* prim64.cpp: the accelerator driver
\* ------------------------------------------------------------------------

\* #define REG_BASE 10
REG_BASE == 10

\* Largest num_val and largest input file size explored (a file holds the
\* 4-byte magic number and then its payload).
MaxNumVal == 2
MaxFileSize == 6

MagicSize == 4

FileSizes == MagicSize..MaxFileSize

PlatformNames == { "oc-accel", "snap", "aws" }

\* Element values of the Int64 arrays, as small numbers.
Vals == { 0, 1 }

\* What freshly allocated memory may hold: the values above or anything else
\* (-1 stands for every other bit pattern).
Indeterminate == Vals \cup { -1 }

\* Device addresses DeviceMalloc returns, the host address of file_data, and
\* what an uninitialized da_t may hold (64-bit patterns).
DevAddrs  == { << 0, 0, 1, 0 >>, << 4096, 0, 0, 0 >> }
HostAddrs == { << 8192, 21845, 32767, 0 >>, << 36864, 53633, 21987, 0 >> }
Garbage   == { << 0, 0, 0, 0 >>, << 57005, 48879, 0, 0 >> } \cup DevAddrs

\* A small number as a 32-bit / 64-bit pattern.
Word32(n) == << n % LimbBase, n \div LimbBase >>
Word64(n) == << n % LimbBase, n \div LimbBase, 0, 0 >>

\* dau_t: the halves of a 64-bit value.
Lo(w) == SubSeq(w, 1, 2)
Hi(w) == SubSeq(w, 3, 4)

Cmd(op) == [op |-> op, reg |-> 0, val |-> << >>, size |-> << >>]
MMIOWrite(r, v) == [op |-> "WriteMMIO", reg |-> r, val |-> v, size |-> << >>]
MMIORead(r) == [op |-> "ReadMMIO", reg |-> r, val |-> << >>, size |-> << >>]

\* Variant: the address and the size are written to each other's registers.
setPtoaArgumentsSwapped(nv, max_size, device_parquet_address) ==
    << MMIOWrite(REG_BASE + 0, Word32(nv)),
       MMIOWrite(REG_BASE + 3, Lo(device_parquet_address)),
       MMIOWrite(REG_BASE + 4, Hi(device_parquet_address)),
       MMIOWrite(REG_BASE + 1, Lo(max_size)),
       MMIOWrite(REG_BASE + 2, Hi(max_size)) >>

\* setPtoaArguments: the five argument registers.
setPtoaArguments(nv, max_size, device_parquet_address) ==
    << MMIOWrite(REG_BASE + 0, Word32(nv)),
       MMIOWrite(REG_BASE + 1, Lo(device_parquet_address)),
       MMIOWrite(REG_BASE + 2, Hi(device_parquet_address)),
       MMIOWrite(REG_BASE + 3, Lo(max_size)),
       MMIOWrite(REG_BASE + 4, Hi(max_size)) >>

\* checkMMIO: one read of the num_val register, then registers 0..14.
checkMMIO ==
    << MMIORead(REG_BASE + 0) >> \o [r \in 1..15 |-> MMIORead(r - 1)]

\* Variant: the test is argc >= 3.
Prim64ArgsGivenFromThree(n) == n >= 3

\* if (argc > 3)
Prim64ArgsGiven(n) == n > 3

\* main: the argument check and the first Platform::Make.
Prim64Main ==
    /\ prog = "prim64"
    /\ pc = "start"
    /\ IF Prim64ArgsGiven(argc)
       THEN /\ num_val' \in 0..MaxNumVal
            /\ cmds' = Append(cmds, Cmd("Platform::Make"))
            /\ \E ok \in BOOLEAN :
                  IF ok
                  THEN /\ platName' \in PlatformNames
                       /\ pc' = "p_read"
                       /\ UNCHANGED << out, status >>
                  ELSE /\ out' = Append(out, "Could not create Fletcher platform.")
                       /\ status' = "-1"
                       /\ pc' = "exited"
                       /\ UNCHANGED platName
       ELSE /\ out' = Append(out, "usage")
            /\ status' = "1"
            /\ pc' = "exited"
            /\ UNCHANGED << num_val, cmds, platName >>
    /\ UNCHANGED << prog, argc, prelimVars, file_size, bufSize, bufReads,
                    devAddr, result, reference, error_count >>

\* main: the input file is opened, sized and read past its magic number into
\* file_data, and the checksum loop runs over it.
Prim64ReadFile ==
    /\ prog = "prim64"
    /\ pc = "p_read"
    /\ \E opened \in BOOLEAN :
          IF opened
          THEN /\ file_size' \in FileSizes
               /\ bufSize' = file_size' - MagicSize
               /\ bufReads' = file_size'
               /\ out' = Append(out, "checksum")
               /\ pc' = "p_prepare"
               /\ UNCHANGED status
          ELSE /\ out' = Append(out, "Error opening Parquet file")
               /\ status' = "1"
               /\ pc' = "exited"
               /\ UNCHANGED << file_size, bufSize, bufReads >>
    /\ UNCHANGED << prog, argc, prelimVars, platName, num_val, devAddr, cmds,
                    result, reference, error_count >>

\* The output that survives std::terminate when stdout is not a terminal:
\* abort() does not flush, and the checksum line (printf, no flush since)
\* is still in stdout's buffer.
DropUnflushed(o) ==
    IF Len(o) > 0 /\ o[Len(o)] = "checksum" THEN SubSeq(o, 1, Len(o) - 1)
    ELSE o

\* main: prepareRecordBatch(num_val) and the result array's buffer, which
\* AllocateBuffer does not initialize.  The exception of a failed allocation
\* is caught nowhere.
Prim64Prepare ==
    /\ prog = "prim64"
    /\ pc = "p_prepare"
    /\ \E allocOk \in BOOLEAN :
          IF allocOk
          THEN /\ result' \in [1..num_val -> Indeterminate]
               /\ out' = Append(out, "Prepare FPGA RecordBatch")
               /\ pc' = "p_init"
               /\ UNCHANGED status
          ELSE /\ status' = "terminate"
               /\ pc' = "exited"
               /\ out' \in { out, DropUnflushed(out) }
               /\ UNCHANGED result
    /\ UNCHANGED << prog, argc, prelimVars, platName, num_val, file_size,
                    bufSize, bufReads, devAddr, cmds, reference, error_count >>

\* main: platform, context and kernel are created; the kernel is reset, the
\* destination record batch queued and the context enabled.
Prim64Init ==
    /\ prog = "prim64"
    /\ pc = "p_init"
    /\ \E ok \in BOOLEAN :
          IF ok
          THEN /\ cmds' = cmds \o << Cmd("Platform::Make"), Cmd("Init"),
                                     Cmd("Context::Make"), Cmd("Reset"),
                                     Cmd("QueueRecordBatch"), Cmd("Enable") >>
               /\ pc' = "p_args"
               /\ UNCHANGED << out, status >>
          ELSE /\ cmds' = Append(cmds, Cmd("Platform::Make"))
               /\ out' = Append(out, "Could not create platform.")
               /\ status' = "failure"
               /\ pc' = "exited"
    /\ UNCHANGED << prog, argc, prelimVars, platName, num_val, file_size,
                    bufSize, bufReads, devAddr, result, reference, error_count >>

\* main: the device buffer (except on oc-accel and snap), the argument
\* registers, checkMMIO with its message, and the clearing of the result
\* buffer (memset).
Prim64Args ==
    /\ prog = "prim64"
    /\ pc = "p_args"
    /\ IF platName = "oc-accel" \/ platName = "snap"
       THEN /\ \E host \in HostAddrs :
                  cmds' = cmds \o setPtoaArguments(num_val, Word64(file_size), host)
                               \o checkMMIO
            /\ out' = out \o << "Skipping device buffer allocation and host to device copy.",
                                "FPGA Initialize", "MMIO num_val" >>
            /\ UNCHANGED devAddr
       ELSE /\ \E a \in DevAddrs :
                  /\ devAddr' = [set |-> TRUE, addr |-> a]
                  /\ cmds' = cmds
                       \o << [op |-> "DeviceMalloc", reg |-> 0, val |-> a,
                              size |-> Word64(file_size)] >>
                       \o setPtoaArguments(num_val, Word64(file_size), a)
                       \o checkMMIO
            /\ out' = out \o << "FPGA Initialize", "MMIO num_val" >>
    /\ result' = [k \in 1..num_val |-> 0]
    /\ pc' = "p_copy_in"
    /\ UNCHANGED << prog, argc, status, prelimVars, platName, num_val,
                    file_size, bufSize, bufReads, reference, error_count >>

\* main: platform->CopyHostToDevice(file_data, device_parquet_address,
\* file_size).  On oc-accel and snap device_parquet_address was never
\* assigned: the call receives whatever the variable holds.
Prim64CopyIn ==
    /\ prog = "prim64"
    /\ pc = "p_copy_in"
    /\ \E a \in (IF devAddr.set THEN { devAddr.addr } ELSE Garbage) :
          cmds' = Append(cmds, [op |-> "CopyHostToDevice", reg |-> 0,
                                val |-> a, size |-> Word64(file_size)])
    /\ out' = Append(out, "FPGA host to device copy")
    /\ pc' = "p_run"
    /\ UNCHANGED << prog, argc, status, prelimVars, platName, num_val,
                    file_size, bufSize, bufReads, devAddr, result, reference,
                    error_count >>

\* main: kernel.Start().  The kernel then runs on its own.
Prim64Start ==
    /\ prog = "prim64"
    /\ pc = "p_run"
    /\ cmds' = Append(cmds, Cmd("Start"))
    /\ pc' = "p_poll"
    /\ UNCHANGED << prog, argc, status, out, prelimVars, platName, num_val,
                    file_size, bufSize, bufReads, devAddr, result, reference,
                    error_count >>

\* main: kernel.PollUntilDoneInterval(10) returns, the kernel having set its
\* done bit; until then (for ever, if the kernel never finishes) main waits
\* at this position.
Prim64Poll ==
    /\ prog = "prim64"
    /\ pc = "p_poll"
    /\ cmds' = Append(cmds, Cmd("PollUntilDone"))
    /\ out' = Append(out, "FPGA processing time")
    /\ pc' = "p_copy_out"
    /\ UNCHANGED << prog, argc, status, prelimVars, platName, num_val,
                    file_size, bufSize, bufReads, devAddr, result, reference,
                    error_count >>

\* main: platform->CopyDeviceToHost(..., result_buffer_raw_data,
\* sizeof(int64_t) * num_val): the result array receives the device's output.
Prim64CopyOut ==
    /\ prog = "prim64"
    /\ pc = "p_copy_out"
    /\ cmds' = Append(cmds, [op |-> "CopyDeviceToHost", reg |-> 0, val |-> << >>,
                             size |-> Word64(8 * num_val)])
    /\ result' \in [1..num_val -> Vals]
    /\ out' = out \o << "FPGA device to host copy", "Arrow buffers total size" >>
    /\ pc' = "p_check"
    /\ UNCHANGED << prog, argc, status, prelimVars, platName, num_val,
                    file_size, bufSize, bufReads, devAddr, reference,
                    error_count >>

\* Number of positions of the result at which the value read from the
\* reference differs (at(k): the value correct_array->Value(k-1) yields).
RECURSIVE Mismatches(_, _, _)
Mismatches(res, at, k) ==
    IF k > Len(res) THEN 0
    ELSE (IF res[k] # at[k] THEN 1 ELSE 0) + Mismatches(res, at, k + 1)

\* The lines '<result value> <reference value>' the element loop prints for
\* the indices below 20.
ElementLines(res, at) ==
    [k \in 1..(IF Len(res) < 20 THEN Len(res) ELSE 20) |->
        ToString(res[k]) \o " " \o ToString(at[k])]

\* main: the reference array is read, compared with Equals and, when that
\* fails, element by element.  Value(i) beyond the reference's length reads
\* outside the array: any value.
Prim64Check ==
    /\ prog = "prim64"
    /\ pc = "p_check"
    /\ \E opened \in BOOLEAN :
          IF ~opened
          THEN /\ out' = Append(out, "Error opening Parquet file")
               /\ status' = "-1"
               /\ UNCHANGED << reference, error_count >>
          ELSE /\ \E len \in 0..(MaxNumVal + 1) : reference' \in [1..len -> Vals]
               /\ status' = "0"
               /\ IF result = reference'
                  THEN /\ out' = Append(out, "Test passed!")
                       /\ UNCHANGED error_count
                  ELSE \E beyond \in [1..num_val -> Vals] :
                          LET at == [k \in 1..num_val |->
                                        IF k <= Len(reference') THEN reference'[k]
                                        ELSE beyond[k]]
                              ec == Mismatches(result, at, 1)
                                    + (IF Len(result) # num_val THEN 1 ELSE 0)
                          IN /\ error_count' = ec
                             /\ out' = out \o ElementLines(result, at)
                                          \o << IF ec = 0 THEN "Test passed!"
                                                ELSE "Test failed." >>
    /\ pc' = "exited"
    /\ UNCHANGED << prog, argc, prelimVars, platName, num_val, file_size,
                    bufSize, bufReads, devAddr, cmds, result >>

\* ------------------------------------------------------------------------
\* Specification
\* ------------------------------------------------------------------------

Init ==
    /\ \/ prog = "caller" /\ argc = 1
       \/ prog \in { "prelim", "prim64" } /\ argc \in 1..MaxArgc
    /\ pc = "start"
    /\ status = "running"
    /\ out = << >>
    /\ kind = "int64"
    /\ num_values = 0
    /\ run_length = 1
    /\ write_to_file = FALSE
    /\ i = 0
    /\ modulo = ZeroWord(Limbs64)
    /\ number = ZeroWord(Limbs64)
    /\ column = << >>
    /\ table = NoTable
    /\ files = [f \in FileNames |-> Absent]
    /\ seed = 1
    /\ genCount = 0
    /\ mtTape = [s \in Seeds |-> << >>]
    /\ randCount = 0
    /\ randTape = << >>
    /\ prng0 = << 0, 0 >>
    /\ drawLog = << >>
    /\ modLog = << >>
    /\ prev = NoRun
    /\ written = NoWrite
    /\ platName = "none"
    /\ num_val = 0
    /\ file_size = 0
    /\ bufSize = 0
    /\ bufReads = 0
    /\ devAddr = [set |-> FALSE, addr |-> ZeroWord(Limbs64)]
    /\ cmds = << >>
    /\ result = << >>
    /\ reference = << >>
    /\ error_count = -1

Next ==
    \/ PrelimMain
    \/ PrelimWrite
    \/ Call64
    \/ Call32
    \/ GenLoop64
    \/ GenLoop32
    \/ GenFinish64
    \/ GenFinish32
    \/ Repeat
    \/ CallWrite
    \/ CallRandomString
    \/ CallInt32Table
    \/ CallStrTable
    \/ CallInt64StrTable
    \/ Prim64Main
    \/ Prim64ReadFile
    \/ Prim64Prepare
    \/ Prim64Init
    \/ Prim64Args
    \/ Prim64CopyIn
    \/ Prim64Start
    \/ Prim64Poll
    \/ Prim64CopyOut
    \/ Prim64Check

Spec == Init /\ [][Next]_vars

\* ------------------------------------------------------------------------
\* Properties
\* ------------------------------------------------------------------------

\* A generation is under way or has returned its table (not aborted).
Generating == pc = "gen_loop"
Returned == table.made

CeilDiv(a, b) == (a + b - 1) \div b

\* C1: in both generators every value appended to the column is
\* non-negative and strictly below the power of two drawn for its run, read
\* as an unsigned number (the exponent W-1 included).
C1_ValuesBelowModulus ==
    (Generating \/ Returned) =>
        /\ Len(modLog) = Len(column)
        /\ \A j \in 1..Len(column) :
              /\ ~IsNegative(column[j])
              /\ IsPowerOfTwo(modLog[j])
              /\ ULess(column[j], modLog[j])

\* A generation of two or more values has returned, one of them nonzero and
\* drawn under the largest exponent, W-1.
C1_Witness ==
    /\ Returned
    /\ Len(column) >= 2
    /\ \E j \in 1..Len(column) :
          /\ modLog[j] = ShiftLeftOne(WidthOf(kind) - 1, NumLimbs(kind))
          /\ ~IsZeroWord(column[j])

\* C2: a modulus is drawn at position i exactly when i mod run_length = 0,
\* the modulus in force is the same at every other position as at the
\* position before, and a completed generation of num_values > 0 values has
\* drawn ceil(num_values / run_length) moduli.
C2_DrawsAtRunBoundaries ==
    (Generating \/ Returned) =>
        /\ drawLog = [k \in 1..CeilDiv(i, run_length) |-> (k - 1) * run_length]
        /\ \A j \in 2..Len(modLog) :
              ((j - 1) % run_length # 0) => modLog[j] = modLog[j - 1]
        /\ (Returned /\ num_values > 0) =>
              Len(drawLog) = CeilDiv(num_values, run_length)

\* Three values in runs of two: two moduli were drawn, at positions 0 and 2.
C2_Witness ==
    /\ Returned
    /\ num_values = 3
    /\ run_length = 2
    /\ drawLog = << 0, 2 >>

\* C3: a completed generation of num_values > 0 values returns a column of
\* exactly num_values values, whatever run_length and write_to_file are; up
\* to then one value has been appended per iteration.
C3_ColumnLength ==
    /\ Generating => Len(column) = i
    /\ (Returned /\ num_values > 0) => Len(table.column) = num_values

\* A generation with the recorder on and a run boundary inside has returned.
C3_Witness ==
    /\ Returned
    /\ write_to_file
    /\ num_values >= 2
    /\ run_length = 2
    /\ Len(table.column) = num_values

\* C4: the value held in the signed variable `modulo`, once drawn, is a
\* positive power of two 2^e with 0 <= e < W: never negative, never zero.
C4_ModulusPositivePowerOfTwo ==
    (Generating /\ i > 0) =>
        /\ IsPowerOfTwo(modulo)
        /\ ~IsNegative(modulo)
        /\ Log2Word(modulo) \in 0..(WidthOf(kind) - 1)

\* Two generations by the same generator with the same arguments are on
\* record: the previous one and the one that has now returned.
TwoRuns ==
    /\ prev.valid
    /\ Returned
    /\ prev.kind = kind
    /\ prev.num_values = num_values
    /\ prev.run_length = run_length

\* C5 as stated: what the caller can fix, (num_values, run_length), decides
\* the emitted column, so two such runs emit the same column.
C5_SameArgumentsSameColumn == TwoRuns => table.column = prev.column

\* The part of C5 the code meets: two runs with the same arguments whose
\* random sources started in the same state (the value std::random_device gave
\* gen's constructor; the position in the rand() sequence) emit the same
\* column. The code gives the caller no way to choose that state.
C5_SameSourceSameColumn ==
    (TwoRuns /\ prev.prng = prng0) => table.column = prev.column

\* Two int64 runs whose engines got the same seed have both returned one
\* nonzero value.
C5_Witness ==
    /\ TwoRuns
    /\ kind = "int64"
    /\ prev.prng = prng0
    /\ Len(table.column) = 1
    /\ ~IsZeroWord(table.column[1])

\* The generation that returned had the recorder on.
Recorded == Returned /\ write_to_file /\ pc = "returned"

\* C6: with the recorder on, after a completed generation the decimal file
\* holds num_values lines and line k, parsed as a decimal integer, is the
\* column's value at index k. (The claim has no proviso on the file system:
\* it is stated for every completed generation, whether or not the opens
\* and insertions on dec_check_file succeeded.)
C6_DecimalRoundTrip ==
    Recorded =>
        LET dec == files[DecFile(kind)].data
        IN  /\ Len(dec) = num_values
            /\ Len(dec) = Len(table.column)
            /\ \A k \in 1..Len(dec) :
                  ParseDec(dec[k], NumLimbs(kind)) = table.column[k]

\* The decimal file of the generation was opened and no insertion into it
\* failed.
DecIntact ==
    /\ files[DecFile(kind)].exists
    /\ ~files[DecFile(kind)].failed

\* The part of C6 the code meets: when the open of the decimal file and
\* every insertion into it succeeded, the file holds num_values lines that
\* parse back to the column, in order.
C6_IntactFileRoundTrip ==
    (Recorded /\ DecIntact) =>
        LET dec == files[DecFile(kind)].data
        IN  /\ Len(dec) = num_values
            /\ Len(dec) = Len(table.column)
            /\ files[DecFile(kind)].tail = << >>
            /\ \A k \in 1..Len(dec) :
                  ParseDec(dec[k], NumLimbs(kind)) = table.column[k]

\* A recorded generation of two or more values, one of them of 19 decimal
\* digits, has returned.
C6_Witness ==
    /\ Recorded
    /\ num_values >= 2
    /\ \E k \in 1..Len(files[DecFile(kind)].data) :
          Len(files[DecFile(kind)].data[k]) >= 19

\* C7: all lines of a hexadecimal sidecar file have the same number of
\* digits.
C7_HexLinesFixedWidth ==
    \A k \in { "int64", "int32" } :
       LET hex == files[HexFile(k)].data
       IN  \A a \in 1..Len(hex), b \in 1..Len(hex) : Len(hex[a]) = Len(hex[b])

\* C8, the state part: while a generation with write_to_file runs and after
\* it returned, its sidecar files exist and the decimal and hexadecimal
\* files hold one line per appended value.
C8_RecorderOn ==
    ((Generating \/ pc = "returned") /\ write_to_file) =>
        /\ \A f \in Sidecars(kind) : files[f].exists
        /\ Len(files[DecFile(kind)].data) = Len(column)
        /\ Len(files[HexFile(kind)].data) = Len(column)

\* C8, the step part: a step of a generation without write_to_file changes
\* no sidecar file, and a step of a generation with it changes at most the
\* three sidecar files of its own generator.
C8_RecorderStep ==
    /\ ~write_to_file' =>
          \A f \in Sidecars("int64") \cup Sidecars("int32") : files'[f] = files[f]
    /\ write_to_file' =>
          \A f \in FileNames \ (Sidecars(kind') \cup { ParquetPath }) :
             files'[f] = files[f]

\* C8: the write_to_file flag alone controls the recorder. (Stated, as the
\* claim is, for every generation: with the flag on the three files are
\* created and get their lines, whatever the file system does.)
C8_FlagControlsRecorder == []C8_RecorderOn /\ [][C8_RecorderStep]_vars

\* The part of C8 the code meets: no step with the flag off touches a sidecar
\* file, and a step with the flag on touches only the three files of its own
\* generator.
C8_RecorderFrame == [][C8_RecorderStep]_vars

\* A recorded generation of two values has returned with its three files.
C8_Witness ==
    /\ Recorded
    /\ num_values = 2
    /\ \A f \in Sidecars(kind) : files[f].exists
    /\ Len(files[HexFile(kind)].data) = 2
    /\ Len(files[BinFile(kind)].data) = 2 * (WidthOf(kind) \div 8)

\* C9: every WriteTable call made by write_parquet_file has statistics off,
\* compression SNAPPY exactly when the compression flag is set and
\* UNCOMPRESSED otherwise, the dictionary on exactly when the dictionary flag
\* is set; and prelim's main passes the generated table with chunk size
\* num_values.
C9_WriterConfiguration ==
    written.called =>
        /\ written.statistics = FALSE
        /\ (written.compression = "SNAPPY") <=> written.argCompression
        /\ (written.compression = "UNCOMPRESSED") <=> ~written.argCompression
        /\ written.dictionary <=> written.argDictionary
        /\ prog = "prelim" =>
              /\ written.chunk_size = num_values
              /\ written.column = table.column
              /\ written.filename = ParquetPath

\* write_parquet_file was called with compression set and dictionary not.
C9_Witness ==
    /\ written.called
    /\ written.argCompression
    /\ ~written.argDictionary
    /\ written.compression = "SNAPPY"

\* The process was started with too few arguments and has left "start".
TooFewArguments ==
    /\ pc # "start"
    /\ \/ prog = "prelim" /\ argc < 2
       \/ prog = "prim64" /\ argc - 1 < 3

\* C10: started with too few arguments, either driver prints its usage
\* message and exits with status 1, having generated no table, written no
\* file and made no call on the platform.
C10_UsageExit ==
    TooFewArguments =>
        /\ pc = "exited"
        /\ status = "1"
        /\ out = << "usage" >>
        /\ ~table.made
        /\ column = << >>
        /\ \A f \in FileNames : ~files[f].exists
        /\ ~written.called
        /\ cmds = << >>

\* The accelerator driver was started with two positional arguments and has
\* exited.
C10_Witness ==
    /\ prog = "prim64"
    /\ argc = 3
    /\ pc = "exited"
    /\ status = "1"

\* A step of a generation in which Append (the column did not grow in an
\* iteration) or Finish (the loop was over and no table was made) failed.
GenerationFails ==
    /\ pc = "gen_loop"
    /\ \/ LoopContinues(i, num_values) /\ Len(column') = Len(column)
       \/ ~LoopContinues(i, num_values) /\ ~table'.made

\* C11, the step part: the step in which Append or Finish fails leaves the
\* generator by the exception, with no table made and nothing handed to the
\* writer; and no step is taken from there (nothing more is drawn or
\* appended).
C11_AbortStep ==
    /\ GenerationFails =>
          /\ pc' \in { "threw", "exited" }
          /\ prog = "prelim" => (pc' = "exited" /\ status' = "terminate")
          /\ ~table'.made
          /\ column' = column
          /\ written' = written
    /\ pc \in { "threw", "exited" } => UNCHANGED vars

\* C11, the state part: a table exists only with all its values (num_values
\* of them, none when num_values is not positive), and prelim's main hands
\* the writer nothing but such a table.
C11_NoPartialTable ==
    /\ table.made =>
          Len(table.column) = (IF num_values > 0 THEN num_values ELSE 0)
    /\ (prog = "prelim" /\ written.called) =>
          (table.made /\ written.column = table.column)
    /\ (pc = "threw" /\ written = NoWrite) => ~table.made

\* C11: a failed Append or Finish aborts the whole generation: nothing more
\* is drawn or appended, no table (partial or shorter) is returned, and
\* nothing reaches the file writer.
C11_FailureAbortsGeneration == []C11_NoPartialTable /\ [][C11_AbortStep]_vars

\* A caller's generation was aborted by a failed Append after one value and
\* before its last one.
C11_Witness ==
    /\ prog = "caller"
    /\ pc = "threw"
    /\ ~written.called
    /\ Len(column) >= 1
    /\ Len(column) < num_values
    /\ ~table.made

\* ------------------------------------------------------------------------
\* The generators with failing sidecar I/O
\* ------------------------------------------------------------------------

\* The streams a generator may find failing at open(): any of its three;
\* none when write_to_file is off (the streams are then never used).
OpenFaults(k, w) == IF w THEN SUBSET Sidecars(k) ELSE { { } }

\* Largest num_values explored with failing I/O, and the largest number of
\* text streams whose write fails in one generation.
MaxFaultN == 1
MaxWriteFailures == 1

WriteFailures(fs, k) == { f \in Sidecars(k) : fs[f].pending # << >> }

CallArgsIO(k) ==
    \E n \in 0..MaxFaultN, len \in 1..MaxRunLength, w \in BOOLEAN :
       \E bad \in OpenFaults(k, w) : GenEnterIO(k, n, len, w, randCount, bad)

\* generate_int64_delta_varied_bit_width_table(n, len, w), open() may fail
Call64IO ==
    /\ prog = "caller"
    /\ pc = "start"
    /\ CallArgsIO("int64")
    /\ UNCHANGED << procVars, prev, written, accVars >>

\* generate_int32_delta_varied_bit_width_table(n, len, w), open() may fail
Call32IO ==
    /\ prog = "caller"
    /\ pc = "start"
    /\ CallArgsIO("int32")
    /\ UNCHANGED << procVars, prev, written, accVars >>

GenLoop64IO ==
    /\ kind = "int64"
    /\ LoopBodyIO(TRUE)
    /\ Cardinality(WriteFailures(files', kind)) <= MaxWriteFailures

GenLoop32IO ==
    /\ kind = "int32"
    /\ LoopBodyIO(TRUE)
    /\ Cardinality(WriteFailures(files', kind)) <= MaxWriteFailures

GenFinish64IO == kind = "int64" /\ FinishBodyIO(TRUE)

GenFinish32IO == kind = "int32" /\ FinishBodyIO(TRUE)

NextIO ==
    \/ Call64IO
    \/ Call32IO
    \/ GenLoop64IO
    \/ GenLoop32IO
    \/ GenFinish64IO
    \/ GenFinish32IO

SpecIO == Init /\ [][NextIO]_vars

\* The sidecar file f of the generation that returned is there and whole:
\* the line of each value, in order, in the text files, the bytes of the
\* column in the binary file, and nothing else.
SidecarWhole(f) ==
    /\ files[f].exists
    /\ files[f].tail = << >>
    /\ f = DecFile(kind) =>
          files[f].data = [k \in 1..Len(table.column) |->
                              FormatDec(table.column[k])]
    /\ f = HexFile(kind) =>
          files[f].data = [k \in 1..Len(table.column) |->
                              FormatHex(table.column[k])]
    /\ f = BinFile(kind) => files[f].data = BufferBytes(table.column)

\* C12: with the recorder on, a failure to open or write a sidecar file
\* aborts the run, so a generation that returned its column has its three
\* sidecar files present and whole.
C12_SidecarFailureFatal ==
    (pc = "returned" /\ table.made /\ write_to_file) =>
        \A f \in Sidecars(kind) : SidecarWhole(f)

\* The commands of the accelerator protocol among those the driver issued
\* (allocation, the second Platform::Make, Init, Context::Make and register
\* reads left aside), each as << operation, register >>.
IsProtocolCmd(c) ==
    c.op \in { "Reset", "QueueRecordBatch", "Enable", "WriteMMIO",
               "CopyHostToDevice", "Start", "PollUntilDone",
               "CopyDeviceToHost" }

Protocol ==
    LET sel == SelectSeq(cmds, IsProtocolCmd)
    IN  [k \in 1..Len(sel) |-> << sel[k].op, sel[k].reg >>]

ProtocolOrder ==
    << << "Reset", 0 >>, << "QueueRecordBatch", 0 >>, << "Enable", 0 >>,
       << "WriteMMIO", REG_BASE + 0 >>, << "WriteMMIO", REG_BASE + 1 >>,
       << "WriteMMIO", REG_BASE + 2 >>, << "WriteMMIO", REG_BASE + 3 >>,
       << "WriteMMIO", REG_BASE + 4 >>, << "CopyHostToDevice", 0 >>,
       << "Start", 0 >>, << "PollUntilDone", 0 >>,
       << "CopyDeviceToHost", 0 >> >>

\* The argument registers as last written, as one 64-bit pattern per pair.
RegWritten(r) == \E k \in 1..Len(cmds) : cmds[k].op = "WriteMMIO" /\ cmds[k].reg = r
RegValue(r) ==
    LET k == CHOOSE j \in 1..Len(cmds) :
                 /\ cmds[j].op = "WriteMMIO" /\ cmds[j].reg = r
                 /\ \A l \in (j + 1)..Len(cmds) :
                       ~(cmds[l].op = "WriteMMIO" /\ cmds[l].reg = r)
    IN  cmds[k].val

KernelStarted == \E k \in 1..Len(cmds) : cmds[k].op = "Start"
Verified == prog = "prim64" /\ pc = "exited" /\ status = "0"

\* C13: the driver's protocol commands are always an initial part of the
\* fixed order reset, queue, enable, the five argument registers, host to
\* device copy, start, poll, device to host copy; when the kernel is started
\* the registers hold num_val, an address (lo, hi) and the file size
\* (lo, hi); and the result is compared only after the whole sequence.
C13_CommandOrder ==
    /\ Len(Protocol) <= Len(ProtocolOrder)
    /\ Protocol = SubSeq(ProtocolOrder, 1, Len(Protocol))
    /\ KernelStarted =>
          /\ \A r \in 0..4 : RegWritten(REG_BASE + r)
          /\ RegValue(REG_BASE + 0) = Word32(num_val)
          /\ RegValue(REG_BASE + 1) \o RegValue(REG_BASE + 2)
                \in DevAddrs \cup HostAddrs
          /\ RegValue(REG_BASE + 3) \o RegValue(REG_BASE + 4)
                = Word64(file_size)
    /\ (pc = "p_check" \/ Verified \/ error_count # -1) =>
          Protocol = ProtocolOrder

\* A run on a platform with device memory went through the whole protocol
\* and compared a result of two values.
C13_Witness ==
    /\ Verified
    /\ platName = "aws"
    /\ num_val = 2
    /\ Protocol = ProtocolOrder

Issued(op) == { k \in 1..Len(cmds) : cmds[k].op = op }

\* C14: on the platforms "oc-accel" and "snap" the driver issues neither
\* DeviceMalloc nor CopyHostToDevice; on the other platforms every
\* CopyHostToDevice goes to the address an earlier DeviceMalloc returned.
C14_CopyOnlyToAllocatedBuffer ==
    /\ platName \in { "oc-accel", "snap" } =>
          /\ Issued("DeviceMalloc") = { }
          /\ Issued("CopyHostToDevice") = { }
    /\ \A c \in Issued("CopyHostToDevice") :
          \E a \in Issued("DeviceMalloc") :
             a < c /\ cmds[a].val = cmds[c].val

\* The verdict the driver printed (its last message).
Verdict == out[Len(out)]

\* Every element of the result has an equal element at its index in the
\* reference, and the result has num_val elements.
ResultMatches ==
    /\ Len(result) = num_val
    /\ \A k \in 1..Len(result) :
          k <= Len(reference) /\ result[k] = reference[k]

\* The indices of the result at which the reference has no equal element.
MismatchingIndices ==
    { k \in 1..Len(result) : k > Len(reference) \/ result[k] # reference[k] }

\* C15: the driver prints "Test passed!" exactly when the result has num_val
\* elements and each equals the reference's element at its index; otherwise
\* it prints the failure message with the number of mismatching indices
\* (plus one if the length is not num_val) as error count.
C15_VerdictMatchesElements ==
    Verified =>
        IF ResultMatches
        THEN Verdict = "Test passed!"
        ELSE /\ Verdict = "Test failed."
             /\ error_count = Cardinality(MismatchingIndices)
                                + (IF Len(result) # num_val THEN 1 ELSE 0)

\* The part of C15 the code meets: when the reference has at least as many
\* elements as the result, the verdict and the error count are as C15 says.
C15_VerdictWithinReference ==
    (Verified /\ Len(reference) >= Len(result)) => C15_VerdictMatchesElements

\* C16: once the input file is staged, file_data holds file_size - 4 bytes,
\* the checksum loop has read only bytes of it, and no host-to-device copy
\* is longer than it.
C16_StagedBufferInBounds ==
    (prog = "prim64" /\ file_size >= MagicSize) =>
        /\ bufSize = file_size - MagicSize
        /\ bufReads <= bufSize
        /\ \A c \in Issued("CopyHostToDevice") :
              \E n \in 0..bufSize : cmds[c].size = Word64(n)

====
